---------------------------- MODULE Spec2Model ----------------------------
(***************************************************************************)
(* Model of custom_components/ambientika/climate.py: the AmbientikaFan     *)
(* climate entity, which caches the last DeviceStatus of one device and    *)
(* turns set-fan / set-hvac / set-preset commands into change_mode calls.  *)
(*                                                                         *)
(* One adapter is modelled.  The host serialises the calls on one entity,  *)
(* so every handler is one atomic action; the outcome of the remote call   *)
(* it awaits (device.status(), device.change_mode()) is an input.          *)
(*                                                                         *)
(* Optional values (Python's X | None) are sequences: <<>> is None and     *)
(* <<v>> is the value v.                                                   *)
(***************************************************************************)
EXTENDS Integers, Sequences, FiniteSets, TLC

VARIABLES
    _state,     \* AmbientikaFan._state: DeviceStatus | None
    call        \* the handler invocation that produced _state: its name and
                \* argument, the _state it started from, the remote calls it
                \* made with their replies, and the exception it raised

vars == <<_state, call>>

-----------------------------------------------------------------------------
(* Bounds of the input domains.                                            *)

MaxTemperature == 1     \* temperatures reported: 0..MaxTemperature degrees

\* the humidities reported, in percent: two sample readings
Humidity == {40, 55}

-----------------------------------------------------------------------------
(* The enums imported from ambientika_py.  A member is its position in the *)
(* tuple of member names; Enum[name] and member.name convert between the   *)
(* two.  The model keeps a subset of the vendor's members: the Off mode    *)
(* and two active modes, two fan speeds, two humidity levels.              *)

FanSpeedNames == <<"Low", "High">>
OperatingModeNames == <<"Smart", "Night", "Off">>
HumidityLevelNames == <<"Dry", "Normal">>

Members(names) == DOMAIN names

\* Enum.__members__ contains `name`
HasMember(names, name) == \E i \in DOMAIN names : names[i] = name

\* Enum[name], defined when HasMember(names, name); KeyError otherwise
GetItem(names, name) == CHOOSE i \in DOMAIN names : names[i] = name

\* member.name
NameOf(names, member) == names[member]

FanSpeed == Members(FanSpeedNames)
OperatingMode == Members(OperatingModeNames)
HumidityLevel == Members(HumidityLevelNames)

OperatingMode_Off == GetItem(OperatingModeNames, "Off")

\* homeassistant HVACMode values: the two the entity lists, and one it
\* does not list
HVACMode_OFF == "off"
HVACMode_FAN_ONLY == "fan_only"
HVACMode_HEAT == "heat"

None == <<>>
Some(v) == <<v>>

\* Python truthiness of an optional dict: None is falsy, a DeviceStatus
\* (a dict with all six keys) is truthy
Truthy(opt) == opt # None

-----------------------------------------------------------------------------
(* DeviceStatus snapshots and the replies of the remote calls.             *)

DeviceStatus ==
    [temperature : 0..MaxTemperature,
     humidity : Humidity,
     humidity_level : HumidityLevel,
     fan_speed : FanSpeed,
     operating_mode : OperatingMode,
     last_operating_mode : OperatingMode]

\* snapshots whose resume target is an active mode
ResumableStatus == {s \in DeviceStatus : s.last_operating_mode # OperatingMode_Off}

Success(data) == [tag |-> "Success", value |-> Some(data)]
Failure == [tag |-> "Failure", value |-> None]

StatusReplies(statuses) == {Success(s) : s \in statuses} \cup {Failure}

\* the dict passed to device.change_mode
Mode(operating_mode, fan_speed, humidity_level) ==
    [operating_mode |-> operating_mode,
     fan_speed |-> fan_speed,
     humidity_level |-> humidity_level]

\* what a handler did: the new _state, the change_mode requests it sent,
\* and the exception that left it
Outcome(state, requests, raised) ==
    [state |-> state, requests |-> requests, raised |-> raised]

-----------------------------------------------------------------------------
(* The read accessors: projections of the cached status, None (unknown)    *)
(* when there is none.                                                     *)

available(state) == state # None

current_humidity(state) ==
    IF Truthy(state) THEN Some(state[1].humidity) ELSE None

current_temperature(state) ==
    IF Truthy(state) THEN Some(state[1].temperature) ELSE None

fan_mode(state) ==
    IF Truthy(state) THEN Some(NameOf(FanSpeedNames, state[1].fan_speed)) ELSE None

hvac_mode(state) ==
    IF Truthy(state)
    THEN IF state[1].operating_mode = OperatingMode_Off
         THEN Some(HVACMode_OFF)
         ELSE Some(HVACMode_FAN_ONLY)
    ELSE None

preset_mode(state) ==
    IF Truthy(state)
    THEN Some(NameOf(OperatingModeNames, state[1].operating_mode))
    ELSE None

is_on(state) ==
    IF Truthy(state)
    THEN Some(state[1].operating_mode # OperatingMode_Off)
    ELSE None

-----------------------------------------------------------------------------
(* The handlers, as functions of the cached status, the argument and the   *)
(* reply of the remote call (change_mode's reply is tested for truth).     *)

\* Variants of update_state with a slip: a failed poll keeps the stale
\* status; a successful poll keeps the cached (patched) fan speed.
update_state_keep_stale(state, reply) ==
    IF reply.tag = "Success" THEN Some(reply.value[1]) ELSE state

update_state_merge(state, reply) ==
    IF reply.tag = "Success"
    THEN IF Truthy(state)
         THEN Some([reply.value[1] EXCEPT !.fan_speed = state[1].fan_speed])
         ELSE Some(reply.value[1])
    ELSE None

\* async_update: the new _state for a reply of device.status()
update_state(state, reply) ==
    IF reply.tag = "Success" THEN Some(reply.value[1]) ELSE None

\* Variants of set_fan_mode with a slip: the cache is patched whatever
\* change_mode returned; the name is passed on unconverted and looked up
\* only when the cache is patched.
set_fan_mode_unchecked_reply(state, name, reply) ==
    IF ~Truthy(state)
    THEN Outcome(state, <<>>, "none")
    ELSE IF ~HasMember(FanSpeedNames, name)
    THEN Outcome(state, <<>>, "KeyError")
    ELSE LET s == state[1]
             speed == GetItem(FanSpeedNames, name)
         IN  Outcome(Some([s EXCEPT !.fan_speed = speed]),
                     <<Mode(s.operating_mode, speed, s.humidity_level)>>, "none")

set_fan_mode_late_lookup(state, name, reply) ==
    IF ~Truthy(state)
    THEN Outcome(state, <<>>, "none")
    ELSE LET s == state[1]
             request == Mode(s.operating_mode, name, s.humidity_level)
         IN  IF ~reply
             THEN Outcome(state, <<request>>, "none")
             ELSE IF ~HasMember(FanSpeedNames, name)
             THEN Outcome(state, <<request>>, "KeyError")
             ELSE Outcome(Some([s EXCEPT !.fan_speed = GetItem(FanSpeedNames, name)]),
                          <<request>>, "none")

\* async_set_fan_mode(fan_mode)
set_fan_mode(state, name, reply) ==
    IF ~Truthy(state)
    THEN Outcome(state, <<>>, "none")
    ELSE IF ~HasMember(FanSpeedNames, name)
    THEN Outcome(state, <<>>, "KeyError")     \* FanSpeed[fan_mode], building the dict
    ELSE LET s == state[1]
             speed == GetItem(FanSpeedNames, name)
             request == Mode(s.operating_mode, speed, s.humidity_level)
         IN  IF reply
             THEN Outcome(Some([s EXCEPT !.fan_speed = speed]), <<request>>, "none")
             ELSE Outcome(state, <<request>>, "none")

\* Variant of turn_off with a slip: the two assignments in the other
\* order, so that the mode stashed is already Off.
turn_off_swapped(s, reply) ==
    LET request == Mode(OperatingMode_Off, s.fan_speed, s.humidity_level)
        s1 == [s EXCEPT !.operating_mode = OperatingMode_Off]
    IN  IF reply
        THEN Outcome(Some([s1 EXCEPT !.last_operating_mode = s1.operating_mode]),
                     <<request>>, "none")
        ELSE Outcome(Some(s), <<request>>, "none")

\* async_set_hvac_mode(HVACMode.OFF) on a device that is not Off
turn_off(s, reply) ==
    LET request == Mode(OperatingMode_Off, s.fan_speed, s.humidity_level)
    IN  IF reply
        THEN Outcome(Some([s EXCEPT !.last_operating_mode = s.operating_mode,
                                    !.operating_mode = OperatingMode_Off]),
                     <<request>>, "none")
        ELSE Outcome(Some(s), <<request>>, "none")

\* Variant of turn_on with a slip: last_operating_mode is not reset.
turn_on_keep_last(s, reply) ==
    LET request == Mode(s.last_operating_mode, s.fan_speed, s.humidity_level)
    IN  IF reply
        THEN Outcome(Some([s EXCEPT !.operating_mode = s.last_operating_mode]),
                     <<request>>, "none")
        ELSE Outcome(Some(s), <<request>>, "none")

\* async_set_hvac_mode(HVACMode.FAN_ONLY) on a device that is Off
turn_on(s, reply) ==
    LET request == Mode(s.last_operating_mode, s.fan_speed, s.humidity_level)
    IN  IF reply
        THEN Outcome(Some([s EXCEPT !.operating_mode = s.last_operating_mode,
                                    !.last_operating_mode = OperatingMode_Off]),
                     <<request>>, "none")
        ELSE Outcome(Some(s), <<request>>, "none")

\* Variants of set_hvac_mode with a slip: the current operating mode is
\* not consulted; the missing status is not guarded (None["operating_mode"]
\* is a TypeError).
set_hvac_mode_unconditional(state, mode, reply) ==
    IF ~Truthy(state)
    THEN Outcome(state, <<>>, "none")
    ELSE IF mode = HVACMode_OFF
    THEN turn_off(state[1], reply)
    ELSE IF mode = HVACMode_FAN_ONLY
    THEN turn_on(state[1], reply)
    ELSE Outcome(state, <<>>, "none")

set_hvac_mode_unguarded(state, mode, reply) ==
    IF ~Truthy(state)
    THEN Outcome(state, <<>>, "TypeError")
    ELSE IF mode = HVACMode_OFF /\ state[1].operating_mode # OperatingMode_Off
    THEN turn_off(state[1], reply)
    ELSE IF mode = HVACMode_FAN_ONLY /\ state[1].operating_mode = OperatingMode_Off
    THEN turn_on(state[1], reply)
    ELSE Outcome(state, <<>>, "none")

\* async_set_hvac_mode(hvac_mode)
set_hvac_mode(state, mode, reply) ==
    IF ~Truthy(state)
    THEN Outcome(state, <<>>, "none")
    ELSE IF mode = HVACMode_OFF /\ state[1].operating_mode # OperatingMode_Off
    THEN turn_off(state[1], reply)
    ELSE IF mode = HVACMode_FAN_ONLY /\ state[1].operating_mode = OperatingMode_Off
    THEN turn_on(state[1], reply)
    ELSE Outcome(state, <<>>, "none")

\* the two assignments that follow a successful change_mode in
\* async_set_preset_mode, in program order
preset_patch(s, new_mode) ==
    LET s1 == [s EXCEPT !.last_operating_mode = s.operating_mode]
    IN  [s1 EXCEPT !.operating_mode = s1.last_operating_mode]

\* async_set_preset_mode(preset_mode)
set_preset_mode(state, name, reply) ==
    IF ~Truthy(state)
    THEN Outcome(state, <<>>, "none")
    ELSE IF ~HasMember(OperatingModeNames, name)
    THEN Outcome(state, <<>>, "KeyError")     \* OperatingMode[preset_mode]
    ELSE LET s == state[1]
             new_mode == GetItem(OperatingModeNames, name)
             request == Mode(new_mode, s.fan_speed, s.humidity_level)
         IN  IF reply
             THEN Outcome(Some(preset_patch(s, new_mode)), <<request>>, "none")
             ELSE Outcome(state, <<request>>, "none")

-----------------------------------------------------------------------------
(* The state machine.                                                      *)

\* the arguments the host may pass: every member name, and one that is none
FanModeArgs == {FanSpeedNames[i] : i \in DOMAIN FanSpeedNames} \cup {"Turbo"}
PresetModeArgs == {OperatingModeNames[i] : i \in DOMAIN OperatingModeNames} \cup {"Boost"}
HVACModeArgs == {HVACMode_OFF, HVACMode_FAN_ONLY, HVACMode_HEAT}

Call(op, arg, pre, requests, replies, status, raised) ==
    [op |-> op,             \* the handler
     arg |-> arg,           \* its argument ("" when it has none)
     pre |-> pre,           \* _state when it was entered
     requests |-> requests, \* the dicts passed to device.change_mode, in order
     replies |-> replies,   \* what change_mode returned for each (truth value)
     status |-> status,     \* what device.status() returned, if called
     raised |-> raised]     \* the exception that left the handler, or "none"

\* __init__: nothing cached
Init ==
    /\ _state = None
    /\ call = Call("__init__", "", None, <<>>, <<>>, <<>>, "none")

\* the record of a command handler that was entered with `pre`, got
\* `reply` from change_mode if it called it, and left `outcome`
CommandCall(op, arg, pre, reply, outcome) ==
    Call(op, arg, pre, outcome.requests,
         [i \in DOMAIN outcome.requests |-> reply], <<>>, outcome.raised)

\* the record of an async_update that was entered with `pre`
UpdateCall(pre, reply) ==
    Call("async_update", "", pre, <<>>, <<>>, <<reply>>, "none")

async_update ==
    \E reply \in StatusReplies(DeviceStatus) :
        /\ _state' = update_state(_state, reply)
        /\ call' = UpdateCall(_state, reply)

\* async_update against a device whose snapshots always name an active
\* mode to resume into
async_update_resumable ==
    \E reply \in StatusReplies(ResumableStatus) :
        /\ _state' = update_state(_state, reply)
        /\ call' = UpdateCall(_state, reply)

async_set_fan_mode ==
    \E name \in FanModeArgs, reply \in BOOLEAN :
        LET outcome == set_fan_mode(_state, name, reply)
        IN  /\ _state' = outcome.state
            /\ call' = CommandCall("async_set_fan_mode", name, _state, reply, outcome)

async_set_hvac_mode ==
    \E mode \in HVACModeArgs, reply \in BOOLEAN :
        LET outcome == set_hvac_mode(_state, mode, reply)
        IN  /\ _state' = outcome.state
            /\ call' = CommandCall("async_set_hvac_mode", mode, _state, reply, outcome)

async_set_preset_mode ==
    \E name \in PresetModeArgs, reply \in BOOLEAN :
        LET outcome == set_preset_mode(_state, name, reply)
        IN  /\ _state' = outcome.state
            /\ call' = CommandCall("async_set_preset_mode", name, _state, reply, outcome)

Next ==
    \/ async_update
    \/ async_set_fan_mode
    \/ async_set_hvac_mode
    \/ async_set_preset_mode

Spec == Init /\ [][Next]_vars

NextResumable ==
    \/ async_update_resumable
    \/ async_set_fan_mode
    \/ async_set_hvac_mode
    \/ async_set_preset_mode

SpecResumable == Init /\ [][NextResumable]_vars

TypeOK ==
    /\ _state \in {None} \cup {Some(s) : s \in DeviceStatus}
    /\ call.pre \in {None} \cup {Some(s) : s \in DeviceStatus}
    /\ Len(call.requests) = Len(call.replies)
    /\ Len(call.requests) <= 1

-----------------------------------------------------------------------------
(* Vocabulary of the properties below.                                     *)

Commands == {"async_set_fan_mode", "async_set_hvac_mode", "async_set_preset_mode"}

Refreshed == call.op = "async_update"
RefreshFailed == Refreshed /\ call.status = <<Failure>>
RefreshSucceeded == Refreshed /\ call.status # <<Failure>>

\* the command sent one request and change_mode returned a true / false value
ChangeSucceeded == call.op \in Commands /\ call.replies = <<TRUE>>
ChangeFailed == call.op \in Commands /\ call.replies = <<FALSE>>

PowerOff == call.op = "async_set_hvac_mode" /\ call.arg = HVACMode_OFF
PowerOn == call.op = "async_set_hvac_mode" /\ call.arg = HVACMode_FAN_ONLY

ValidArg ==
    \/ call.op = "async_set_fan_mode" /\ HasMember(FanSpeedNames, call.arg)
    \/ call.op = "async_set_preset_mode" /\ HasMember(OperatingModeNames, call.arg)
    \/ call.op = "async_set_hvac_mode"

-----------------------------------------------------------------------------
\* C1: after async_update received a Failure from device.status(), whatever
\* was cached before, the status is absent: available is false and
\* current_temperature, current_humidity, fan_mode, preset_mode, hvac_mode
\* and is_on are all None.
FailedRefreshClearsStatus ==
    RefreshFailed =>
        /\ _state = None
        /\ ~available(_state)
        /\ current_temperature(_state) = None
        /\ current_humidity(_state) = None
        /\ fan_mode(_state) = None
        /\ preset_mode(_state) = None
        /\ hvac_mode(_state) = None
        /\ is_on(_state) = None

\* a failed poll that found a status cached
FailedRefreshOverCachedStatus ==
    RefreshFailed /\ Truthy(call.pre) /\ ~available(_state)

\* C2: after async_update received Success(S), the cache is S in every
\* field, whatever was cached (or patched) before, the entity is available
\* and the accessors project S.
SuccessfulRefreshReplacesStatus ==
    RefreshSucceeded =>
        LET S == call.status[1].value[1]
        IN  /\ _state = Some(S)
            /\ \A f \in DOMAIN S : _state[1][f] = S[f]
            /\ available(_state)
            /\ current_temperature(_state) = Some(S.temperature)
            /\ current_humidity(_state) = Some(S.humidity)
            /\ fan_mode(_state) = Some(FanSpeedNames[S.fan_speed])
            /\ preset_mode(_state) = Some(OperatingModeNames[S.operating_mode])
            /\ is_on(_state) = Some(S.operating_mode # OperatingMode_Off)

\* a successful poll over a cached status that differs from the snapshot in
\* every field
RefreshOverwritesDifferentStatus ==
    /\ RefreshSucceeded
    /\ Truthy(call.pre)
    /\ \A f \in DOMAIN call.pre[1] : call.pre[1][f] # _state[1][f]

\* C3: when the change_mode call of a command returns a false value, the
\* cached status is the one the command started from, in every field.
FailedChangeLeavesStatus ==
    ChangeFailed =>
        /\ _state = call.pre
        /\ \A f \in DOMAIN call.pre[1] : _state[1][f] = call.pre[1][f]

\* a refused request for a fan speed other than the cached one
FailedFanSpeedChange ==
    /\ ChangeFailed
    /\ call.op = "async_set_fan_mode"
    /\ call.requests[1].fan_speed # call.pre[1].fan_speed

\* C4: async_set_hvac_mode(OFF) with the cached operating_mode Off, and
\* async_set_hvac_mode(FAN_ONLY) with the cached operating_mode not Off,
\* send no request and leave the cached status as it was.
PowerAlreadyThereIsNoOp ==
    (/\ Truthy(call.pre)
     /\ \/ PowerOff /\ call.pre[1].operating_mode = OperatingMode_Off
        \/ PowerOn /\ call.pre[1].operating_mode # OperatingMode_Off)
    => /\ call.requests = <<>>
       /\ call.raised = "none"
       /\ _state = call.pre

\* turning on a device that is on
PowerOnWhileOn ==
    /\ PowerOn
    /\ Truthy(call.pre)
    /\ call.pre[1].operating_mode # OperatingMode_Off
    /\ call.requests = <<>>

\* C5: a successful async_set_hvac_mode(OFF) from operating_mode M # Off sent
\* {Off, fan_speed, humidity_level} and left operating_mode = Off,
\* last_operating_mode = M; an async_set_hvac_mode(FAN_ONLY) right after it
\* whose request is not refused sends {M, fan_speed, humidity_level} and
\* leaves operating_mode = M, last_operating_mode = Off.
PowerRoundTrip ==
    [][(/\ PowerOff /\ ChangeSucceeded
        /\ call'.op = "async_set_hvac_mode"
        /\ call'.arg = HVACMode_FAN_ONLY
        /\ call'.replies # <<FALSE>>)
       => LET before == call.pre[1]
              M == before.operating_mode
          IN  /\ M # OperatingMode_Off
              /\ call.requests =
                    <<Mode(OperatingMode_Off, before.fan_speed, before.humidity_level)>>
              /\ _state = Some([before EXCEPT !.operating_mode = OperatingMode_Off,
                                              !.last_operating_mode = M])
              /\ call'.requests = <<Mode(M, before.fan_speed, before.humidity_level)>>
              /\ _state' = Some([before EXCEPT !.operating_mode = M,
                                               !.last_operating_mode = OperatingMode_Off])
      ]_vars

\* the end of a round trip: a device that was Off with an active mode to
\* resume is on again in that mode, with nothing left to resume
PoweredBackOn ==
    /\ PowerOn /\ ChangeSucceeded
    /\ call.pre[1].operating_mode = OperatingMode_Off
    /\ call.pre[1].last_operating_mode # OperatingMode_Off
    /\ _state[1].operating_mode = call.pre[1].last_operating_mode
    /\ _state[1].last_operating_mode = OperatingMode_Off

\* C6, as claimed: async_set_fan_mode with a name that is no FanSpeed member
\* raises, sends no request and leaves the cached status, whether a status
\* is cached or not.
UnknownFanSpeedRejected ==
    (call.op = "async_set_fan_mode" /\ ~HasMember(FanSpeedNames, call.arg))
    => /\ call.raised = "KeyError"
       /\ call.requests = <<>>
       /\ _state = call.pre

\* C6, amended: async_set_fan_mode with a name that is no FanSpeed member
\* sends no request and leaves the cached status; it raises KeyError when a
\* status is cached, and returns silently when none is.
UnknownFanSpeedRejectedWhenCached ==
    (call.op = "async_set_fan_mode" /\ ~HasMember(FanSpeedNames, call.arg))
    => /\ call.requests = <<>>
       /\ _state = call.pre
       /\ call.raised = (IF Truthy(call.pre) THEN "KeyError" ELSE "none")

\* an unknown fan speed name, rejected with a status cached
UnknownFanSpeedOnCachedStatus ==
    /\ call.op = "async_set_fan_mode"
    /\ ~HasMember(FanSpeedNames, call.arg)
    /\ Truthy(call.pre)
    /\ call.raised = "KeyError"

\* C7, as claimed: a successful async_set_preset_mode(new_mode) on a cached
\* status sent {new_mode, fan_speed, humidity_level} and leaves the cached
\* operating_mode, and preset_mode, equal to new_mode.
PresetBecomesOperatingMode ==
    (/\ call.op = "async_set_preset_mode"
     /\ ChangeSucceeded)
    => LET new_mode == GetItem(OperatingModeNames, call.arg)
       IN  /\ call.requests =
                <<Mode(new_mode, call.pre[1].fan_speed, call.pre[1].humidity_level)>>
           /\ _state[1].operating_mode = new_mode
           /\ preset_mode(_state) = Some(call.arg)

\* C8, as claimed (under SpecResumable, where no snapshot has
\* last_operating_mode = Off): a cached last_operating_mode is never Off.
LastOperatingModeNeverOff ==
    Truthy(_state) => _state[1].last_operating_mode # OperatingMode_Off

\* C8, amended (under SpecResumable): the cached last_operating_mode turns
\* Off only in a successful async_set_hvac_mode(FAN_ONLY), which resets it,
\* or in a successful async_set_preset_mode on a status whose operating_mode
\* is Off, which copies that mode; and a successful async_set_hvac_mode(OFF)
\* leaves in it the active mode the device was in.
LastOperatingModeOffOnlyByResume ==
    /\ (/\ Truthy(_state)
        /\ _state[1].last_operating_mode = OperatingMode_Off
        /\ ~(Truthy(call.pre) /\ call.pre[1].last_operating_mode = OperatingMode_Off))
       => \/ PowerOn /\ ChangeSucceeded
          \/ /\ call.op = "async_set_preset_mode" /\ ChangeSucceeded
             /\ call.pre[1].operating_mode = OperatingMode_Off
    /\ (PowerOff /\ ChangeSucceeded)
       => /\ _state[1].last_operating_mode = call.pre[1].operating_mode
          /\ _state[1].last_operating_mode # OperatingMode_Off

\* powering on resets a last_operating_mode that was an active mode
ResumeResetsLastOperatingMode ==
    /\ PowerOn /\ ChangeSucceeded
    /\ call.pre[1].last_operating_mode # OperatingMode_Off
    /\ _state[1].last_operating_mode = OperatingMode_Off

\* C9: with no status cached, the three commands send no request, raise
\* nothing for a valid argument and leave the status absent; a status that
\* was absent is present only after a successful async_update.
CommandsWithoutStatusAreNoOps ==
    /\ (call.op \in Commands /\ ~Truthy(call.pre))
       => /\ call.requests = <<>>
          /\ _state = None
          /\ ValidArg => call.raised = "none"
    /\ (~Truthy(call.pre) /\ Truthy(_state)) => RefreshSucceeded

\* a power-on command ignored because no status is cached
PowerOnWithoutStatus ==
    /\ PowerOn
    /\ ~Truthy(call.pre)
    /\ ~available(_state)

\* C10, as claimed: whenever async_set_hvac_mode(FAN_ONLY) finds the cached
\* operating_mode Off and its change_mode call succeeds, the request names
\* an operating_mode other than Off and the entity is on afterwards.
PowerOnTurnsDeviceOn ==
    (/\ PowerOn /\ ChangeSucceeded
     /\ call.pre[1].operating_mode = OperatingMode_Off)
    => /\ call.requests[1].operating_mode # OperatingMode_Off
       /\ is_on(_state) = Some(TRUE)
       /\ hvac_mode(_state) = Some(HVACMode_FAN_ONLY)

=============================================================================
